---------------------------- MODULE Spec2Model ----------------------------
(***************************************************************************)
(* A model of pdf_processor.py: the batch pipeline that OCRs every PDF of  *)
(* the Inbox, extracts its text, asks a language model to classify it and  *)
(* moves the OCR'd file into Processed/<category>/, relocating the files   *)
(* that failed into Failed/.                                               *)
(*                                                                         *)
(* Strings the program computes with (sender, title, category, date, file  *)
(* names) are sequences of one-character strings.                          *)
(***************************************************************************)
EXTENDS Integers, Sequences, FiniteSets, TLC

(***************************************************************************)
(* Bounds of the model.                                                    *)
(***************************************************************************)
\* Largest number of eligible PDF files the Inbox holds when the run starts.
MaxFiles == 2

(***************************************************************************)
(* Character strings.                                                      *)
(***************************************************************************)
LowerLetters == <<"a", "b", "c", "d", "e", "f", "g", "h", "i", "j", "k", "l", "m",
                  "n", "o", "p", "q", "r", "s", "t", "u", "v", "w", "x", "y", "z", "ü">>

UpperLetters == <<"A", "B", "C", "D", "E", "F", "G", "H", "I", "J", "K", "L", "M",
                  "N", "O", "P", "Q", "R", "S", "T", "U", "V", "W", "X", "Y", "Z", "Ü">>

DigitChars == <<"0", "1", "2", "3", "4", "5", "6", "7", "8", "9">>

Range(s) == {s[k] : k \in 1..Len(s)}

IsDigit(c) == c \in Range(DigitChars)

\* int(c) for a digit character c
DigitVal(c) == (CHOOSE k \in 1..10 : DigitChars[k] = c) - 1

\* str.lower() and str.upper() on one character
LowerChar(c) ==
  IF c \in Range(UpperLetters)
  THEN LowerLetters[CHOOSE k \in 1..Len(UpperLetters) : UpperLetters[k] = c]
  ELSE c

UpperChar(c) ==
  IF c \in Range(LowerLetters)
  THEN UpperLetters[CHOOSE k \in 1..Len(LowerLetters) : LowerLetters[k] = c]
  ELSE c

\* str.capitalize(): first character upper case, the rest lower case
Capitalize(s) ==
  [k \in 1..Len(s) |-> IF k = 1 THEN UpperChar(s[k]) ELSE LowerChar(s[k])]

\* str.strip(chars): drop leading and trailing characters that are in chars
RECURSIVE LStrip(_, _)
LStrip(s, chars) ==
  IF s # <<>> /\ s[1] \in chars THEN LStrip(Tail(s), chars) ELSE s

RECURSIVE RStrip(_, _)
RStrip(s, chars) ==
  IF s # <<>> /\ s[Len(s)] \in chars
  THEN RStrip(SubSeq(s, 1, Len(s) - 1), chars)
  ELSE s

StripChars(s, chars) == RStrip(LStrip(s, chars), chars)

Whitespace == {" ", "\t", "\n"}

\* str.strip() without arguments
Strip(s) == StripChars(s, Whitespace)

\* str.replace(" ", "_")
ReplaceSpaces(s) == [k \in 1..Len(s) |-> IF s[k] = " " THEN "_" ELSE s[k]]

\* str(n) for a natural number n
RECURSIVE Digits(_)
Digits(n) ==
  IF n < 10 THEN <<DigitChars[n + 1]>>
  ELSE Digits(n \div 10) \o <<DigitChars[(n % 10) + 1]>>

\* The largest index of character c in s, 0 when s has none (str.rfind + 1).
RFind(s, c) ==
  IF c \in Range(s) THEN CHOOSE k \in 1..Len(s) : s[k] = c /\ \A m \in (k+1)..Len(s) : s[m] # c
  ELSE 0

(***************************************************************************)
(* sanitize_filename                                                       *)
(***************************************************************************)
max_len == 200

\* the character class [<>:"/\\|?*]
InvalidChars == {"<", ">", ":", "\"", "/", "\\", "|", "?", "*"}

\* re.sub(r'[<>:"/\\|?*]', '_', name)
ReplaceInvalid(name) ==
  [k \in 1..Len(name) |-> IF name[k] \in InvalidChars THEN "_" ELSE name[k]]

\* re.sub(r'_+', '_', name): every run of underscores becomes one underscore.
\* The two halves of the name are collapsed and joined; a run that spans the
\* middle is collapsed where they meet.
RECURSIVE CollapseUnderscores(_)
CollapseUnderscores(name) ==
  IF Len(name) <= 1 THEN name
  ELSE LET mid == Len(name) \div 2
           left == CollapseUnderscores(SubSeq(name, 1, mid))
           right == CollapseUnderscores(SubSeq(name, mid + 1, Len(name)))
       IN  IF left[Len(left)] = "_" /\ right[1] = "_"
           THEN left \o Tail(right)
           ELSE left \o right

\* name[:max_len], cut before the last space of that prefix when it has one:
\* ' '.join(name[:max_len].split(' ')[:-1]), else name[:max_len]
Truncate(name) ==
  LET prefix == SubSeq(name, 1, max_len)
      sp == RFind(prefix, " ")
  IN  IF sp > 0 THEN SubSeq(prefix, 1, sp - 1) ELSE prefix

\* A sanitizer without the length limit of lines 53-59.
sanitize_filename_untruncated(name) ==
  StripChars(CollapseUnderscores(ReplaceInvalid(name)), {" ", "_"})

\* A sanitizer that also turns spaces into underscores, which the code does for
\* the category only (line 386).
sanitize_filename_underscoring(name) ==
  LET stripped == StripChars(CollapseUnderscores(ReplaceInvalid(name)), {" ", "_"})
  IN  ReplaceSpaces(IF Len(stripped) > max_len THEN Truncate(stripped) ELSE stripped)

\* lines 48-60
sanitize_filename(name) ==
  LET stripped == StripChars(CollapseUnderscores(ReplaceInvalid(name)), {" ", "_"})
  IN  IF Len(stripped) > max_len THEN Truncate(stripped) ELSE stripped

(***************************************************************************)
(* Values of the program: JSON values as json.loads builds them.  None is  *)
(* the value of JSON null.                                                 *)
(***************************************************************************)
JStr(chars) == [t |-> "str", s |-> chars]

JNum(n) == [t |-> "num", n |-> n]

JArr(elems) == [t |-> "arr", elems |-> elems]

JObj(d) == [t |-> "obj", d |-> d]

None == [t |-> "null"]

\* bool(v): the truth value Python gives v in `if v` and `not v`
Truthy(v) ==
  CASE v.t = "null" -> FALSE
    [] v.t = "str" -> v.s # <<>>
    [] v.t = "num" -> v.n # 0
    [] v.t = "arr" -> v.elems # <<>>
    [] v.t = "obj" -> DOMAIN v.d # {}

required_keys == <<"datum", "absender", "titel", "kategorie">>

\* The characters of a key name, for membership tests in a str.
KeyChars(key) ==
  CASE key = "datum" -> <<"d", "a", "t", "u", "m">>
    [] key = "absender" -> <<"a", "b", "s", "e", "n", "d", "e", "r">>
    [] key = "titel" -> <<"t", "i", "t", "e", "l">>
    [] key = "kategorie" -> <<"k", "a", "t", "e", "g", "o", "r", "i", "e">>

IsSubstring(needle, hay) ==
  \E k \in 0..(Len(hay) - Len(needle)) : SubSeq(hay, k + 1, k + Len(needle)) = needle

\* `key in v` of Python: a key of a dict, an element of a list, a substring of a
\* str.  On a number or None the test raises TypeError (see AllKeysIn).
PyIn(key, v) ==
  CASE v.t = "obj" -> key \in DOMAIN v.d
    [] v.t = "arr" -> \E k \in 1..Len(v.elems) : v.elems[k] = JStr(KeyChars(key))
    [] v.t = "str" -> IsSubstring(KeyChars(key), v.s)
    [] OTHER -> FALSE

\* all(key in result_json for key in required_keys): "raise" is the TypeError
\* of a membership test on a value that is no container.
AllKeysIn(v) ==
  IF v.t \in {"num", "null"} THEN "raise"
  ELSE IF \A k \in 1..Len(required_keys) : PyIn(required_keys[k], v) THEN "all"
  ELSE "missing"

(***************************************************************************)
(* The text json.loads and the fallback pattern read: a sequence of tokens.*)
(*   "{" and "}"  the braces of the text's outermost level,                *)
(*   "mem"        one  "key": value  member of an object (with its comma), *)
(*   "val"        the text of a JSON value that is no object,              *)
(*   "txt"        prose: text without braces that is no JSON.              *)
(***************************************************************************)
TLB == [tok |-> "{"]

TRB == [tok |-> "}"]

TTxt == [tok |-> "txt"]

TMem(k, v) == [tok |-> "mem", k |-> k, v |-> v]

TVal(v) == [tok |-> "val", v |-> v]

JSONDecodeError == [ok |-> FALSE]

\* json.loads(text): the value, or JSONDecodeError.  In an object a repeated
\* key keeps its last value.
json_loads(text) ==
  LET n == Len(text)
      IsObject == /\ n >= 2 /\ text[1].tok = "{" /\ text[n].tok = "}"
                  /\ \A k \in 2..(n - 1) : text[k].tok = "mem"
      keys == {text[k].k : k \in 2..(n - 1)}
      last(key) == CHOOSE k \in 2..(n - 1) :
                     text[k].k = key /\ \A m \in (k + 1)..(n - 1) : text[m].k # key
  IN  IF n = 1 /\ text[1].tok = "val" THEN [ok |-> TRUE, v |-> text[1].v]
      ELSE IF IsObject THEN [ok |-> TRUE, v |-> JObj([key \in keys |-> text[last(key)].v])]
      ELSE JSONDecodeError

\* re.search(r'\{.*\}', text, re.DOTALL): from the first "{" to the last "}"
re_search_braces(text) ==
  LET lbs == {k \in 1..Len(text) : text[k].tok = "{"}
      rbs == {k \in 1..Len(text) : text[k].tok = "}"}
      first == CHOOSE k \in lbs : \A m \in lbs : k <= m
      lastb == CHOOSE k \in rbs : \A m \in rbs : m <= k
  IN  IF lbs # {} /\ rbs # {} /\ first < lastb
      THEN [found |-> TRUE, group0 |-> SubSeq(text, first, lastb)]
      ELSE [found |-> FALSE]

(***************************************************************************)
(* analyze_text_with_llm.  A reply is what the POST to the inference       *)
(* endpoint ends in:                                                       *)
(*   kind "ConnectionError", "Timeout", "HTTPError" (raise_for_status),    *)
(*   kind "body" with the HTTP body, whose b is                            *)
(*     "notjson"  response.json() raises,                                  *)
(*     "nondict"  a JSON value that is no object (it has no .get),         *)
(*     "dict"     an object: resp says whether its "response" field is     *)
(*                "absent", a "str" (payload holds its text) or a "nonstr" *)
(*                value; other holds the object's other members.           *)
(***************************************************************************)
\* response.text of a body that is an object without a "response" field
BodyText(body) == <<TLB>> \o body.other \o <<TRB>>

\* lines 235-239 and 251-255: the key check on a parsed value
CheckedResult(result_json) ==
  IF AllKeysIn(result_json) = "all" THEN result_json ELSE None

analyze_text_with_llm(text, reply) ==
  IF reply.kind # "body" THEN None
  ELSE IF reply.body.b # "dict" THEN None
  ELSE IF reply.body.resp = "nonstr" THEN None
  ELSE
    LET llm_output_str == IF reply.body.resp = "str" THEN reply.body.payload ELSE <<>>
        direct == json_loads(llm_output_str)
        llm_output_str_log ==
          IF reply.body.resp = "str" THEN reply.body.payload ELSE BodyText(reply.body)
        match == re_search_braces(llm_output_str_log)
        extracted == json_loads(match.group0)
    IN  IF direct.ok THEN CheckedResult(direct.v)
        ELSE IF ~match.found THEN None
        ELSE IF extracted.ok THEN CheckedResult(extracted.v)
        ELSE None

(***************************************************************************)
(* Date validation: datetime.strptime(datum_str, '%Y-%m-%d').              *)
(***************************************************************************)
NODATE == <<"N", "O", "D", "A", "T", "E">>

\* the number a string of digits denotes
RECURSIVE IntOf(_)
IntOf(s) == IF s = <<>> THEN 0 ELSE 10 * IntOf(SubSeq(s, 1, Len(s) - 1)) + DigitVal(s[Len(s)])

IsLeap(y) == (y % 4 = 0 /\ y % 100 # 0) \/ y % 400 = 0

DaysInMonth(y, m) ==
  IF m = 2 THEN (IF IsLeap(y) THEN 29 ELSE 28)
  ELSE IF m \in {4, 6, 9, 11} THEN 30 ELSE 31

\* %m is (1[0-2]|0[1-9]|[1-9])
MonthDirective(s) ==
  \/ Len(s) = 2 /\ s[1] = "1" /\ s[2] \in {"0", "1", "2"}
  \/ Len(s) = 2 /\ s[1] = "0" /\ IsDigit(s[2]) /\ s[2] # "0"
  \/ Len(s) = 1 /\ IsDigit(s[1]) /\ s[1] # "0"

\* %d is (3[0-1]|[1-2]\d|0[1-9]|[1-9]| [1-9]), and nothing may follow it
DayDirective(s) ==
  \/ Len(s) = 2 /\ s[1] = "3" /\ s[2] \in {"0", "1"}
  \/ Len(s) = 2 /\ s[1] \in {"1", "2"} /\ IsDigit(s[2])
  \/ Len(s) = 2 /\ s[1] \in {"0", " "} /\ IsDigit(s[2]) /\ s[2] # "0"
  \/ Len(s) = 1 /\ IsDigit(s[1]) /\ s[1] # "0"

\* Whether strptime(s, '%Y-%m-%d') returns (TRUE) or raises ValueError (FALSE).
strptime_ok(s) ==
  /\ Len(s) >= 8
  /\ \A k \in 1..4 : IsDigit(s[k])
  /\ s[5] = "-"
  /\ LET dash == IF s[7] = "-" THEN 7 ELSE 8
         ms == SubSeq(s, 6, dash - 1)
         ds == SubSeq(s, dash + 1, Len(s))
     IN  /\ s[dash] = "-"
         /\ MonthDirective(ms)
         /\ DayDirective(ds)
         /\ IntOf(SubSeq(s, 1, 4)) >= 1
         /\ IntOf(LStrip(ds, {" "})) <= DaysInMonth(IntOf(SubSeq(s, 1, 4)), IntOf(ms))

\* lines 373-382: the date part of the file name.  strptime raises TypeError
\* on a value that is no str; both errors are caught.
ValidatedDate(datum_str) ==
  IF Truthy(datum_str)
  THEN IF datum_str.t = "str" /\ strptime_ok(datum_str.s) THEN datum_str.s ELSE NODATE
  ELSE NODATE

(***************************************************************************)
(* Paths and the file system.  A directory is a function from the names of *)
(* its files to their contents; a content is [kind, of]: kind "original",  *)
(* "ocr" (OCR output), "repaired" (repair output), "partial" (what a       *)
(* failed tool left behind) or "stale" (a file of an earlier run), and of  *)
(* is the name of the original file it derives from.                       *)
(***************************************************************************)
DotPdf == <<".", "p", "d", "f">>

OcrTempSuffix == <<"_", "o", "c", "r", "_", "t", "e", "m", "p", ".", "p", "d", "f">>

RepairedTempSuffix ==
  <<"_", "r", "e", "p", "a", "i", "r", "e", "d", "_", "t", "e", "m", "p", ".", "p", "d", "f">>

RepairedTempMark == <<"_", "r", "e", "p", "a", "i", "r", "e", "d", "_", "t", "e", "m", "p">>

\* str.endswith(suffix)
EndsWith(name, suffix) ==
  Len(name) >= Len(suffix) /\ SubSeq(name, Len(name) - Len(suffix) + 1, Len(name)) = suffix

\* pathlib's PurePath.suffix: from the last dot, unless the dot is the first
\* or the last character of the name
PathSuffix(name) ==
  LET k == RFind(name, ".")
  IN  IF 1 < k /\ k < Len(name) THEN SubSeq(name, k, Len(name)) ELSE <<>>

\* pathlib's PurePath.stem
PathStem(name) == SubSeq(name, 1, Len(name) - Len(PathSuffix(name)))

Put(dir, name, content) ==
  [n \in DOMAIN dir \cup {name} |-> IF n = name THEN content ELSE dir[n]]

Remove(dir, name) == [n \in DOMAIN dir \ {name} |-> dir[n]]

EmptyDir == [n \in {} |-> None]

OcrOf(content) == [kind |-> "ocr", of |-> content.of]

RepairedOf(content) == [kind |-> "repaired", of |-> content.of]

PartialOf(content) == [kind |-> "partial", of |-> content.of]

Stale == [kind |-> "stale", of |-> <<>>]

(***************************************************************************)
(* get_next_available_filename.  existing is the set of paths (category    *)
(* directory and file name) that exist under Processed.                    *)
(***************************************************************************)
\* f"{base} ({counter}){ext}"
NumberedName(base, counter, ext) ==
  base \o <<" ", "(">> \o Digits(counter) \o <<")">> \o ext

\* the while loop of lines 289-294, entered with the given counter
RECURSIVE ProbeFrom(_, _, _)
ProbeFrom(target_path, counter, existing) ==
  LET new_path == [dir |-> target_path.dir,
                   name |-> NumberedName(PathStem(target_path.name), counter,
                                         PathSuffix(target_path.name))]
  IN  IF new_path \notin existing THEN new_path
      ELSE ProbeFrom(target_path, counter + 1, existing)

\* A resolver without the loop: it numbers a taken name once and does not
\* look whether the numbered name is free.
get_next_available_filename_once(target_path, existing) ==
  IF target_path \notin existing THEN target_path
  ELSE [dir |-> target_path.dir,
        name |-> NumberedName(PathStem(target_path.name), 1, PathSuffix(target_path.name))]

\* lines 280-294
get_next_available_filename(target_path, existing) ==
  IF target_path \notin existing THEN target_path
  ELSE ProbeFrom(target_path, 1, existing)

(***************************************************************************)
(* Lines 368-399 of main: from the classification result to the target     *)
(* path.  raised is the AttributeError of .get on a value that is no dict  *)
(* or of .strip() on a field that is no str.                               *)
(***************************************************************************)
Unbekannter_Absender ==
  <<"U", "n", "b", "e", "k", "a", "n", "n", "t", "e", "r", "_",
    "A", "b", "s", "e", "n", "d", "e", "r">>

Unbenannter_Titel ==
  <<"U", "n", "b", "e", "n", "a", "n", "n", "t", "e", "r", "_", "T", "i", "t", "e", "l">>

Sonstiges == <<"S", "o", "n", "s", "t", "i", "g", "e", "s">>

\* f"{datum_str} - {absender_sanitized} - {titel_sanitized}.pdf"
NewFilename(datum_str, absender_sanitized, titel_sanitized) ==
  datum_str \o <<" ", "-", " ">> \o absender_sanitized \o <<" ", "-", " ">>
    \o titel_sanitized \o DotPdf

\* dict.get(key, default)
DictGet(d, key, default) == IF key \in DOMAIN d THEN d[key] ELSE default

TargetOf(analysis_result) ==
  IF analysis_result.t # "obj" THEN [raised |-> TRUE]
  ELSE
    LET d == analysis_result.d
        datum_raw == DictGet(d, "datum", None)
        absender_raw == DictGet(d, "absender", JStr(<<"U", "n", "b", "e", "k", "a", "n", "n", "t">>))
        titel_raw == DictGet(d, "titel", JStr(<<"U", "n", "b", "e", "n", "a", "n", "n", "t">>))
        kategorie_raw == DictGet(d, "kategorie", JStr(Sonstiges))
    IN  IF absender_raw.t # "str" \/ titel_raw.t # "str" \/ kategorie_raw.t # "str"
        THEN [raised |-> TRUE]
        ELSE
          LET datum_str == ValidatedDate(datum_raw)
              absender_s == sanitize_filename(Strip(absender_raw.s))
              titel_s == sanitize_filename(Strip(titel_raw.s))
              kategorie_s == ReplaceSpaces(sanitize_filename(Capitalize(Strip(kategorie_raw.s))))
              absender_sanitized == IF absender_s = <<>> THEN Unbekannter_Absender ELSE absender_s
              titel_sanitized == IF titel_s = <<>> THEN Unbenannter_Titel ELSE titel_s
              kategorie_sanitized == IF kategorie_s = <<>> THEN Sonstiges ELSE kategorie_s
          IN  [raised |-> FALSE,
               dir |-> kategorie_sanitized,
               name |-> NewFilename(datum_str, absender_sanitized, titel_sanitized)]

(***************************************************************************)
(* The state of a run of main.                                             *)
(***************************************************************************)
VARIABLES
  pc,               \* the place main has reached
  inbox,            \* INBOX_DIR: file name -> content
  archive,          \* PROCESSED_DIR: [dir, name] -> content
  failed_dir,       \* FAILED_DIR: file name -> content
  endpoint,         \* the replies the inference endpoint may give
  pdf_files,        \* the files enumerated at the start
  i,                \* index into pdf_files of the file being processed
  processed_count,
  failed_files,
  success_log,
  is_retry,         \* the flag of the run_ocrmypdf call in progress
  ocr_ok,           \* what run_ocrmypdf returns (ocr_retry_successful inside)
  ocr_exit,         \* how the OCR tool's last run ended, while run_ocrmypdf is active
  text,             \* the text extracted from the current file
  analysis_result,  \* the classifier's result for the current file
  target_path,      \* the desired archive path of the current file
  final_target_path,\* the free path get_next_available_filename returned for it
  j,                \* index into failed_files during the relocation
  move_errors,      \* the files whose relocation logged an error (lines 453-455)
  trace,            \* the external calls made for the current file, in order
  raised,           \* indexes of the files whose pipeline raised an exception
  llm_none          \* indexes of the files for which the classifier returned None

vars == <<pc, inbox, archive, failed_dir, endpoint, pdf_files, i, processed_count,
          failed_files, success_log, is_retry, ocr_ok, ocr_exit, text, analysis_result,
          target_path, final_target_path, j, move_errors, trace, raised, llm_none>>

(***************************************************************************)
(* The inputs of a run.                                                    *)
(***************************************************************************)
\* "a.pdf", "b.pdf", ...
FileName(k) == <<LowerLetters[k]>> \o DotPdf

Original(name) == [kind |-> "original", of |-> name]

\* INBOX_DIR / f"{pdf_path.stem}_ocr_temp.pdf"
TempOcrPath(pdf_path) == PathStem(pdf_path) \o OcrTempSuffix

\* input_path.parent / f"{input_path.stem}_repaired_temp{input_path.suffix}"
RepairedTempPath(input_path) ==
  PathStem(input_path) \o RepairedTempMark \o PathSuffix(input_path)

S_2024_05_15 == <<"2", "0", "2", "4", "-", "0", "5", "-", "1", "5">>

S_15_05_2024 == <<"1", "5", ".", "0", "5", ".", "2", "0", "2", "4">>

S_Finanzamt == <<"F", "i", "n", "a", "n", "z", "a", "m", "t", " ", "M", "ü", "n", "c", "h", "e", "n">>

S_Steuerbescheid ==
  <<"S", "t", "e", "u", "e", "r", "b", "e", "s", "c", "h", "e", "i", "d", " ", "2", "0", "2", "3">>

S_Steuer == <<"S", "t", "e", "u", "e", "r">>

S_BankAB == <<"B", "a", "n", "k", ":", " ", "A", "/", "B">>

\* the text of an object with the four fields
ObjectText(datum, absender, titel, kategorie) ==
  <<TLB, TMem("datum", datum), TMem("absender", absender), TMem("titel", titel),
    TMem("kategorie", kategorie), TRB>>

\* a reply whose body is {"response": <payload>, ...}
ReplyWith(payload) ==
  [kind |-> "body", body |-> [b |-> "dict", resp |-> "str", payload |-> payload, other |-> <<>>]]

FinanzamtText == ObjectText(JStr(S_2024_05_15), JStr(S_Finanzamt), JStr(S_Steuerbescheid), JStr(S_Steuer))

\* The replies the endpoint gives in the runs of the pipeline.
PipelineReplies ==
  { ReplyWith(FinanzamtText),
    ReplyWith(<<TTxt>> \o FinanzamtText \o <<TTxt>>),
    ReplyWith(ObjectText(JStr(S_15_05_2024), JStr(S_BankAB), JStr(<<" ">>),
                         JStr(<<"s", "t", "e", "u", "e", "r", " ">>))),
    ReplyWith(ObjectText(None, None, JStr(S_Steuerbescheid), JStr(S_Steuer))),
    ReplyWith(<<TLB, TMem("datum", JStr(S_2024_05_15)), TMem("titel", JStr(S_Steuerbescheid)), TRB>>),
    ReplyWith(<<TTxt>>),
    ReplyWith(<<TVal(JArr(<<JStr(KeyChars("datum")), JStr(KeyChars("absender")),
                           JStr(KeyChars("titel")), JStr(KeyChars("kategorie"))>>))>>),
    [kind |-> "ConnectionError"] }

\* What extract_text_from_pdf may return: None, "", whitespace, a short text,
\* a text of 50 characters.
ExtractedTexts ==
  { None, JStr(<<>>), JStr(<<" ", "\n">>), JStr(<<"H", "i", "\n">>),
    JStr([k \in 1..50 |-> "x"]) }

\* The archive path of the classification of FinanzamtText.
FinanzamtTarget ==
  LET t == TargetOf(JObj([k \in {"datum", "absender", "titel", "kategorie"} |->
                            CASE k = "datum" -> JStr(S_2024_05_15)
                              [] k = "absender" -> JStr(S_Finanzamt)
                              [] k = "titel" -> JStr(S_Steuerbescheid)
                              [] k = "kategorie" -> JStr(S_Steuer)]))
  IN  [dir |-> t.dir, name |-> t.name]

\* Files that may lie in the archive before the run: none, or one at the
\* target of FinanzamtText.
InitialArchives == {EmptyDir, [p \in {FinanzamtTarget} |-> Stale]}

Init ==
  /\ pc = "start"
  /\ \E n \in 0..MaxFiles, stale \in BOOLEAN :
       inbox = [name \in {FileName(k) : k \in 1..n}
                          \cup (IF stale
                                THEN {TempOcrPath(FileName(1)), RepairedTempPath(FileName(1))}
                                ELSE {})
                  |-> IF name \in {FileName(k) : k \in 1..n} THEN Original(name) ELSE Stale]
  /\ archive \in InitialArchives
  /\ failed_dir \in {EmptyDir, [name \in {FileName(1)} |-> Stale]}
  /\ endpoint = PipelineReplies
  /\ pdf_files = <<>>
  /\ i = 0
  /\ processed_count = 0
  /\ failed_files = <<>>
  /\ success_log = <<>>
  /\ is_retry = FALSE
  /\ ocr_ok = FALSE
  /\ ocr_exit = None
  /\ text = None
  /\ analysis_result = None
  /\ target_path = None
  /\ final_target_path = None
  /\ j = 0
  /\ move_errors = {}
  /\ trace = <<>>
  /\ raised = {}
  /\ llm_none = {}

(***************************************************************************)
(* main, step by step.  Every external call (a tool, the endpoint, a file  *)
(* operation that may raise) ends in one of its outcomes.  The locals of   *)
(* an iteration are reset when the iteration ends; the extracted text,     *)
(* which only the classifier call reads, is reset by that call.            *)
(***************************************************************************)
pdf_path == pdf_files[i]

temp_ocr_pdf_path == TempOcrPath(pdf_path)

\* the input of the run_ocrmypdf call in progress
input_path == IF is_retry THEN RepairedTempPath(pdf_path) ELSE pdf_path

\* An exception reaches the try block of the current file.
Raise ==
  /\ pc' = "except"
  /\ raised' = raised \cup {i}

\* An exception leaves main.
Crash == pc' = "crashed"

\* the orders in which Path.glob may yield a set of names: any
GlobOrders(names) ==
  {order \in [1..Cardinality(names) -> names] :
     \A a, b \in 1..Cardinality(names) : a # b => order[a] # order[b]}

\* lines 308-323: the PDF files of the Inbox that are no temp files, in the
\* order in which glob yields them
Enumerate ==
  /\ pc = "start"
  /\ LET eligible == {name \in DOMAIN inbox :
                        /\ EndsWith(name, DotPdf)
                        /\ ~EndsWith(name, OcrTempSuffix)
                        /\ ~EndsWith(name, RepairedTempSuffix)}
     IN  /\ pdf_files' \in GlobOrders(eligible)
         /\ IF eligible = {}
            THEN pc' = "returned" /\ i' = i
            ELSE pc' = "begin_file" /\ i' = 1
  /\ UNCHANGED <<inbox, archive, failed_dir, endpoint, processed_count, failed_files,
                 success_log, is_retry, ocr_ok, ocr_exit, text, analysis_result,
                 target_path, final_target_path, j, move_errors, trace, raised, llm_none>>

\* lines 326-333: the stale OCR temp file is deleted, outside the try block
BeginFile ==
  /\ pc = "begin_file"
  /\ \/ /\ inbox' = Remove(inbox, temp_ocr_pdf_path)
        /\ pc' = "ocr"
     \/ /\ temp_ocr_pdf_path \in DOMAIN inbox
        /\ Crash
        /\ UNCHANGED inbox
  /\ UNCHANGED <<archive, failed_dir, endpoint, pdf_files, i, processed_count,
                 failed_files, success_log, is_retry, ocr_ok, ocr_exit, text,
                 analysis_result, target_path, final_target_path, j, move_errors, trace,
                 raised, llm_none>>

\* How a run of the OCR tool may end: exit code 0, the binary is missing, a
\* non-zero exit code (7 or another) with or without the rasterizer named in
\* stderr, or another exception of subprocess.run.
OcrExits ==
  { [kind |-> "ok"], [kind |-> "FileNotFoundError"], [kind |-> "Exception"] }
  \cup { [kind |-> "CalledProcessError", returncode |-> rc, ghostscript |-> gs] :
           rc \in {1, 7}, gs \in BOOLEAN }

\* The guard of line 126 without its look at stderr: a faulty guard that
\* would repair after every exit code 7 of the first attempt.
NeedsRepair_any_exit_7(e, retry) ==
  e.kind = "CalledProcessError" /\ e.returncode = 7 /\ ~retry

\* The guard of line 126 without its retry flag: a faulty guard that would
\* let the second attempt start another repair.
NeedsRepair_ignoring_retry(e, retry) ==
  e.kind = "CalledProcessError" /\ e.returncode = 7 /\ e.ghostscript

\* line 126
NeedsRepair(e, retry) ==
  e.kind = "CalledProcessError" /\ e.returncode = 7 /\ e.ghostscript /\ ~retry

\* run_ocrmypdf returns value ok to its caller: to main, or to the first call
\* when this call is the retry (line 143)
OcrReturns(ok) ==
  /\ ocr_ok' = ok
  /\ pc' = IF is_retry THEN "retry_cleanup" ELSE "ocr_returned"

\* lines 111-163: one run of the OCR tool on input_path.  After a run that
\* succeeded the output path holds the OCR output or no file (main checks
\* which, lines 345-346); a run that failed may leave a partial output.
RunOcr ==
  /\ pc = "ocr"
  /\ trace' = Append(trace, "ocr")
  /\ \E e \in OcrExits, output \in BOOLEAN :
       /\ e.kind = "FileNotFoundError" => ~output
       /\ ocr_exit' = e
       /\ inbox' = IF e.kind = "ok"
                   THEN IF output
                        THEN Put(inbox, temp_ocr_pdf_path, OcrOf(inbox[input_path]))
                        ELSE Remove(inbox, temp_ocr_pdf_path)
                   ELSE IF output
                        THEN Put(inbox, temp_ocr_pdf_path, PartialOf(inbox[input_path]))
                        ELSE inbox
       /\ IF e.kind = "ok" THEN OcrReturns(TRUE)
          ELSE IF NeedsRepair(e, is_retry) THEN pc' = "repair_unlink" /\ ocr_ok' = ocr_ok
          ELSE OcrReturns(FALSE)
  /\ UNCHANGED <<archive, failed_dir, endpoint, pdf_files, i, processed_count,
                 failed_files, success_log, is_retry, text, analysis_result, target_path,
                 final_target_path, j, move_errors, raised, llm_none>>

\* lines 130-135: a stale repaired temp file is deleted
RepairUnlink ==
  /\ pc = "repair_unlink"
  /\ \/ /\ inbox' = Remove(inbox, RepairedTempPath(input_path))
        /\ pc' = "repair"
        /\ UNCHANGED <<raised, ocr_exit>>
     \/ /\ RepairedTempPath(input_path) \in DOMAIN inbox
        /\ Raise
        /\ ocr_exit' = None
        /\ UNCHANGED inbox
  /\ UNCHANGED <<archive, failed_dir, endpoint, pdf_files, i, processed_count,
                 failed_files, success_log, is_retry, ocr_ok, text, analysis_result,
                 target_path, final_target_path, j, move_errors, trace, llm_none>>

\* Lines 138-143 without the test of line 140: the OCR is tried again whether
\* or not the repair succeeded.
RunRepair_always_retrying ==
  /\ pc = "repair"
  /\ trace' = Append(trace, "repair")
  /\ \/ inbox' = Put(inbox, RepairedTempPath(input_path), RepairedOf(inbox[input_path]))
     \/ \E partial \in BOOLEAN :
          inbox' = IF partial
                   THEN Put(inbox, RepairedTempPath(input_path), PartialOf(inbox[input_path]))
                   ELSE inbox
  /\ is_retry' = TRUE
  /\ pc' = "ocr"
  /\ UNCHANGED <<archive, failed_dir, endpoint, pdf_files, i, processed_count,
                 failed_files, success_log, ocr_ok, ocr_exit, text, analysis_result,
                 target_path, final_target_path, j, move_errors, raised, llm_none>>

\* lines 62-94 and 138-143: run_ghostscript_repair, which returns False on
\* every error; after a repair run_ocrmypdf calls itself on the repaired file
RunRepair ==
  /\ pc = "repair"
  /\ trace' = Append(trace, "repair")
  /\ \/ /\ inbox' = Put(inbox, RepairedTempPath(input_path), RepairedOf(inbox[input_path]))
        /\ is_retry' = TRUE
        /\ pc' = "ocr"
     \/ \E partial \in BOOLEAN :
          /\ inbox' = IF partial
                      THEN Put(inbox, RepairedTempPath(input_path), PartialOf(inbox[input_path]))
                      ELSE inbox
          /\ is_retry' = is_retry
          /\ pc' = "repair_failed"
  /\ UNCHANGED <<archive, failed_dir, endpoint, pdf_files, i, processed_count,
                 failed_files, success_log, ocr_ok, ocr_exit, text, analysis_result,
                 target_path, final_target_path, j, move_errors, raised, llm_none>>

\* lines 150-154: the repair failed
RepairFailed ==
  /\ pc = "repair_failed"
  /\ \/ /\ inbox' = Remove(inbox, RepairedTempPath(pdf_path))
        /\ ocr_ok' = FALSE
        /\ pc' = "ocr_returned"
        /\ UNCHANGED <<raised, ocr_exit>>
     \/ /\ RepairedTempPath(pdf_path) \in DOMAIN inbox
        /\ Raise
        /\ ocr_exit' = None
        /\ UNCHANGED <<inbox, ocr_ok>>
  /\ UNCHANGED <<archive, failed_dir, endpoint, pdf_files, i, processed_count,
                 failed_files, success_log, is_retry, text, analysis_result, target_path,
                 final_target_path, j, move_errors, trace, llm_none>>

\* Lines 145-149 without the unlink of line 147: the repaired temp file stays.
RetryCleanup_keeping_file ==
  /\ pc = "retry_cleanup"
  /\ is_retry' = FALSE
  /\ pc' = "ocr_returned"
  /\ UNCHANGED <<inbox, archive, failed_dir, endpoint, pdf_files, i, processed_count,
                 failed_files, success_log, ocr_ok, ocr_exit, text, analysis_result,
                 target_path, final_target_path, j, move_errors, trace, raised, llm_none>>

\* lines 145-149: after the second attempt the repaired temp file is deleted
\* and the second attempt's result returned
RetryCleanup ==
  /\ pc = "retry_cleanup"
  /\ is_retry' = FALSE
  /\ \/ /\ inbox' = Remove(inbox, RepairedTempPath(pdf_path))
        /\ pc' = "ocr_returned"
        /\ UNCHANGED <<raised, ocr_exit>>
     \/ /\ RepairedTempPath(pdf_path) \in DOMAIN inbox
        /\ Raise
        /\ ocr_exit' = None
        /\ UNCHANGED inbox
  /\ UNCHANGED <<archive, failed_dir, endpoint, pdf_files, i, processed_count,
                 failed_files, success_log, ocr_ok, text, analysis_result, target_path,
                 final_target_path, j, move_errors, trace, llm_none>>

\* Lines 345-346 without the check: a faulty main that would go on to the
\* extraction whatever run_ocrmypdf returned.
CheckOcr_ignoring_result ==
  /\ pc = "ocr_returned"
  /\ ocr_exit' = None
  /\ pc' = "extract"
  /\ UNCHANGED raised
  /\ UNCHANGED <<inbox, archive, failed_dir, endpoint, pdf_files, i, processed_count,
                 failed_files, success_log, is_retry, ocr_ok, text, analysis_result,
                 target_path, final_target_path, j, move_errors, trace, llm_none>>

\* lines 341-346: main raises unless OCR succeeded and its output exists
CheckOcr ==
  /\ pc = "ocr_returned"
  /\ ocr_exit' = None
  /\ IF ocr_ok /\ temp_ocr_pdf_path \in DOMAIN inbox
     THEN pc' = "extract" /\ UNCHANGED raised
     ELSE Raise
  /\ UNCHANGED <<inbox, archive, failed_dir, endpoint, pdf_files, i, processed_count,
                 failed_files, success_log, is_retry, ocr_ok, text, analysis_result,
                 target_path, final_target_path, j, move_errors, trace, llm_none>>

\* Lines 348-358 with the commented-out raise of line 358: a faulty main that
\* would fail a file whose text is shorter than 50 characters.
ExtractText_raising_on_short ==
  /\ pc = "extract"
  /\ trace' = Append(trace, "extract")
  /\ \E extracted \in ExtractedTexts :
       /\ text' = extracted
       /\ IF Truthy(extracted) /\ Len(Strip(extracted.s)) >= 50
          THEN pc' = "llm" /\ UNCHANGED raised
          ELSE Raise
  /\ UNCHANGED <<inbox, archive, failed_dir, endpoint, pdf_files, i, processed_count,
                 failed_files, success_log, is_retry, ocr_ok, ocr_exit, analysis_result,
                 target_path, final_target_path, j, move_errors, llm_none>>

\* lines 348-358: extract_text_from_pdf; no text is a failure, a short text is not
ExtractText ==
  /\ pc = "extract"
  /\ trace' = Append(trace, "extract")
  /\ \E extracted \in ExtractedTexts :
       /\ text' = extracted
       /\ IF Truthy(extracted) THEN pc' = "llm" /\ UNCHANGED raised ELSE Raise
  /\ UNCHANGED <<inbox, archive, failed_dir, endpoint, pdf_files, i, processed_count,
                 failed_files, success_log, is_retry, ocr_ok, ocr_exit, analysis_result,
                 target_path, final_target_path, j, move_errors, llm_none>>

\* Lines 360-364 with a second attempt: a faulty main that would ask the
\* classifier again after a failed classification.
CallLlm_retrying ==
  /\ pc = "llm"
  /\ trace' = Append(trace, "llm")
  /\ \E reply \in endpoint :
       /\ analysis_result' = analyze_text_with_llm(text, reply)
       /\ llm_none' = IF analysis_result' = None THEN llm_none \cup {i} ELSE llm_none
       /\ IF Truthy(analysis_result')
          THEN pc' = "validate" /\ text' = None /\ UNCHANGED raised
          ELSE IF trace = <<"ocr", "extract">>
               THEN pc' = "llm" /\ text' = text /\ UNCHANGED raised
               ELSE Raise /\ text' = None
  /\ UNCHANGED <<inbox, archive, failed_dir, endpoint, pdf_files, i, processed_count,
                 failed_files, success_log, is_retry, ocr_ok, ocr_exit, target_path,
                 final_target_path, j, move_errors>>

\* lines 360-364: the classifier is asked once
CallLlm ==
  /\ pc = "llm"
  /\ trace' = Append(trace, "llm")
  /\ \E reply \in endpoint :
       /\ analysis_result' = analyze_text_with_llm(text, reply)
       /\ llm_none' = IF analysis_result' = None THEN llm_none \cup {i} ELSE llm_none
       /\ IF Truthy(analysis_result') THEN pc' = "validate" /\ UNCHANGED raised ELSE Raise
  /\ text' = None
  /\ UNCHANGED <<inbox, archive, failed_dir, endpoint, pdf_files, i, processed_count,
                 failed_files, success_log, is_retry, ocr_ok, ocr_exit, target_path,
                 final_target_path, j, move_errors>>

\* lines 366-392: the fields are validated and the file name is built
Validate ==
  /\ pc = "validate"
  /\ LET t == TargetOf(analysis_result)
     IN  IF t.raised
         THEN Raise /\ UNCHANGED target_path
         ELSE /\ target_path' = [dir |-> t.dir, name |-> t.name]
              /\ pc' = "mkdir"
              /\ UNCHANGED raised
  /\ UNCHANGED <<inbox, archive, failed_dir, endpoint, pdf_files, i, processed_count,
                 failed_files, success_log, is_retry, ocr_ok, ocr_exit, text,
                 analysis_result, final_target_path, j, move_errors, trace, llm_none>>

\* lines 394-396: the category directory is created if it is missing
MakeCategoryDir ==
  /\ pc = "mkdir"
  /\ \/ pc' = "move" /\ UNCHANGED raised
     \/ Raise
  /\ UNCHANGED <<inbox, archive, failed_dir, endpoint, pdf_files, i, processed_count,
                 failed_files, success_log, is_retry, ocr_ok, ocr_exit, text,
                 analysis_result, target_path, final_target_path, j, move_errors, trace,
                 llm_none>>

\* Lines 398-406 without the collision resolver: a faulty main that would
\* move the OCR'd file to the desired path whether or not a file exists there.
MoveToArchive_overwriting ==
  /\ pc = "move"
  /\ trace' = Append(trace, "move")
  /\ final_target_path' = target_path
  /\ \/ /\ archive' = Put(archive, final_target_path', inbox[temp_ocr_pdf_path])
        /\ inbox' = Remove(inbox, temp_ocr_pdf_path)
        /\ pc' = "unlink_original"
        /\ UNCHANGED raised
     \/ \E copied \in BOOLEAN :
          /\ archive' = IF copied
                        THEN Put(archive, final_target_path', inbox[temp_ocr_pdf_path])
                        ELSE archive
          /\ Raise
          /\ UNCHANGED inbox
  /\ UNCHANGED <<failed_dir, endpoint, pdf_files, i, processed_count, failed_files,
                 success_log, is_retry, ocr_ok, ocr_exit, text, analysis_result,
                 target_path, j, move_errors, llm_none>>

\* Lines 398-409 in a faulty order: the original is deleted before the move.
MoveToArchive_unlink_first ==
  /\ pc = "move"
  /\ trace' = Append(trace, "move")
  /\ final_target_path' = get_next_available_filename(target_path, DOMAIN archive)
  /\ \/ /\ archive' = Put(archive, final_target_path', inbox[temp_ocr_pdf_path])
        /\ inbox' = Remove(Remove(inbox, pdf_path), temp_ocr_pdf_path)
        /\ pc' = "unlink_original"
        /\ UNCHANGED raised
     \/ \E copied \in BOOLEAN :
          /\ archive' = IF copied
                        THEN Put(archive, final_target_path', inbox[temp_ocr_pdf_path])
                        ELSE archive
          /\ Raise
          /\ inbox' = Remove(inbox, pdf_path)
  /\ UNCHANGED <<failed_dir, endpoint, pdf_files, i, processed_count, failed_files,
                 success_log, is_retry, ocr_ok, ocr_exit, text, analysis_result,
                 target_path, j, move_errors, llm_none>>

\* lines 398-406: the OCR'd temp file is moved to the first free path.  A
\* shutil.move that raises has changed nothing, or (across file systems) has
\* copied the file and failed to remove the source.
MoveToArchive ==
  /\ pc = "move"
  /\ trace' = Append(trace, "move")
  /\ final_target_path' = get_next_available_filename(target_path, DOMAIN archive)
  /\ \/ /\ archive' = Put(archive, final_target_path', inbox[temp_ocr_pdf_path])
        /\ inbox' = Remove(inbox, temp_ocr_pdf_path)
        /\ pc' = "unlink_original"
        /\ UNCHANGED raised
     \/ \E copied \in BOOLEAN :
          /\ archive' = IF copied
                        THEN Put(archive, final_target_path', inbox[temp_ocr_pdf_path])
                        ELSE archive
          /\ Raise
          /\ UNCHANGED inbox
  /\ UNCHANGED <<failed_dir, endpoint, pdf_files, i, processed_count, failed_files,
                 success_log, is_retry, ocr_ok, ocr_exit, text, analysis_result,
                 target_path, j, move_errors, llm_none>>

\* Lines 408-419 in a faulty order: the success is recorded before the
\* original is deleted.
UnlinkOriginal_recording_first ==
  /\ pc = "unlink_original"
  /\ trace' = Append(trace, "unlink_original")
  /\ success_log' = Append(success_log,
                           [original |-> pdf_path, neu |-> final_target_path.name,
                            ziel |-> final_target_path])
  /\ processed_count' = processed_count + 1
  /\ \/ /\ inbox' = Remove(inbox, pdf_path)
        /\ pc' = "end_file"
        /\ UNCHANGED raised
     \/ /\ Raise
        /\ UNCHANGED inbox
  /\ UNCHANGED <<archive, failed_dir, endpoint, pdf_files, i, failed_files, is_retry,
                 ocr_ok, ocr_exit, text, analysis_result, target_path, final_target_path,
                 j, move_errors, llm_none>>

\* lines 408-419: the original is deleted and the success recorded
UnlinkOriginal ==
  /\ pc = "unlink_original"
  /\ trace' = Append(trace, "unlink_original")
  /\ \/ /\ inbox' = Remove(inbox, pdf_path)
        /\ success_log' = Append(success_log,
                                 [original |-> pdf_path, neu |-> final_target_path.name,
                                  ziel |-> final_target_path])
        /\ processed_count' = processed_count + 1
        /\ pc' = "end_file"
        /\ UNCHANGED raised
     \/ /\ Raise
        /\ UNCHANGED <<inbox, success_log, processed_count>>
  /\ UNCHANGED <<archive, failed_dir, endpoint, pdf_files, i, failed_files, is_retry,
                 ocr_ok, ocr_exit, text, analysis_result, target_path, final_target_path,
                 j, move_errors, llm_none>>

\* lines 421-426: the file is recorded as failed and its OCR temp file deleted
Except ==
  /\ pc = "except"
  /\ failed_files' = Append(failed_files, pdf_path)
  /\ \/ /\ inbox' = Remove(inbox, temp_ocr_pdf_path)
        /\ pc' = "end_file"
     \/ /\ temp_ocr_pdf_path \in DOMAIN inbox
        /\ Crash
        /\ UNCHANGED inbox
  /\ UNCHANGED <<archive, failed_dir, endpoint, pdf_files, i, processed_count,
                 success_log, is_retry, ocr_ok, ocr_exit, text, analysis_result,
                 target_path, final_target_path, j, move_errors, trace, raised, llm_none>>

\* lines 429-431 and 325: the pause, then the next file or the end of the loop
EndFile ==
  /\ pc = "end_file"
  /\ IF i < Len(pdf_files)
     THEN i' = i + 1 /\ pc' = "begin_file" /\ j' = j
     ELSE i' = i /\ pc' = "relocate" /\ j' = 1
  /\ is_retry' = FALSE
  /\ ocr_ok' = FALSE
  /\ text' = None
  /\ analysis_result' = None
  /\ target_path' = None
  /\ final_target_path' = None
  /\ trace' = <<>>
  /\ UNCHANGED <<inbox, archive, failed_dir, endpoint, pdf_files, processed_count,
                 failed_files, success_log, ocr_exit, move_errors, raised, llm_none>>

\* Lines 437-457 without lines 447-450: a file of the same name in the Failed
\* directory is kept and the failed file dropped.
Relocate_keeping_existing ==
  /\ pc = "relocate"
  /\ j <= Len(failed_files)
  /\ LET filename == failed_files[j]
     IN  IF filename \notin DOMAIN inbox
         THEN UNCHANGED <<inbox, failed_dir, move_errors>>
         ELSE \/ /\ inbox' = Remove(inbox, filename)
                 /\ failed_dir' = IF filename \in DOMAIN failed_dir THEN failed_dir
                                  ELSE Put(failed_dir, filename, inbox[filename])
                 /\ UNCHANGED move_errors
              \/ \E copied \in BOOLEAN :
                   /\ failed_dir' =
                        IF copied THEN Put(failed_dir, filename, inbox[filename])
                        ELSE failed_dir
                   /\ move_errors' = move_errors \cup {filename}
                   /\ UNCHANGED inbox
  /\ j' = j + 1
  /\ UNCHANGED <<pc, archive, endpoint, pdf_files, i, processed_count, failed_files,
                 success_log, is_retry, ocr_ok, ocr_exit, text, analysis_result,
                 target_path, final_target_path, trace, raised, llm_none>>

\* lines 437-457: one failed file is moved to the Failed directory, replacing
\* a file of the same name there.  An error of the unlink or of the move is
\* logged; a shutil.move that raises has changed nothing or has copied the file.
Relocate ==
  /\ pc = "relocate"
  /\ j <= Len(failed_files)
  /\ LET filename == failed_files[j]
     IN  IF filename \notin DOMAIN inbox
         THEN UNCHANGED <<inbox, failed_dir, move_errors>>
         ELSE \/ /\ inbox' = Remove(inbox, filename)
                 /\ failed_dir' = Put(failed_dir, filename, inbox[filename])
                 /\ UNCHANGED move_errors
              \/ /\ filename \in DOMAIN failed_dir
                 /\ move_errors' = move_errors \cup {filename}
                 /\ UNCHANGED <<inbox, failed_dir>>
              \/ \E copied \in BOOLEAN :
                   /\ failed_dir' =
                        IF copied THEN Put(failed_dir, filename, inbox[filename])
                        ELSE Remove(failed_dir, filename)
                   /\ move_errors' = move_errors \cup {filename}
                   /\ UNCHANGED inbox
  /\ j' = j + 1
  /\ UNCHANGED <<pc, archive, endpoint, pdf_files, i, processed_count, failed_files,
                 success_log, is_retry, ocr_ok, ocr_exit, text, analysis_result,
                 target_path, final_target_path, trace, raised, llm_none>>

\* lines 460-473: the summary
Summary ==
  /\ pc = "relocate"
  /\ j > Len(failed_files)
  /\ pc' = "done"
  /\ UNCHANGED <<inbox, archive, failed_dir, endpoint, pdf_files, i, processed_count,
                 failed_files, success_log, is_retry, ocr_ok, ocr_exit, text,
                 analysis_result, target_path, final_target_path, j, move_errors, trace,
                 raised, llm_none>>

Next ==
  \/ Enumerate
  \/ BeginFile
  \/ RunOcr
  \/ RepairUnlink
  \/ RunRepair
  \/ RepairFailed
  \/ RetryCleanup
  \/ CheckOcr
  \/ ExtractText
  \/ CallLlm
  \/ Validate
  \/ MakeCategoryDir
  \/ MoveToArchive
  \/ UnlinkOriginal
  \/ Except
  \/ EndFile
  \/ Relocate
  \/ Summary

Spec == Init /\ [][Next]_vars

(***************************************************************************)
(* The classifier on its own: main at the call of line 362, for the first  *)
(* file of a batch, with an endpoint that gives one reply.                 *)
(***************************************************************************)
\* A file has been OCR'd: main is inside the try block of the only file.
InPipeline ==
  /\ inbox = [name \in {FileName(1), TempOcrPath(FileName(1))} |->
                IF name = FileName(1) THEN Original(name) ELSE OcrOf(Original(FileName(1)))]
  /\ failed_dir = EmptyDir
  /\ pdf_files = <<FileName(1)>>
  /\ i = 1
  /\ processed_count = 0
  /\ failed_files = <<>>
  /\ success_log = <<>>
  /\ is_retry = FALSE
  /\ ocr_ok = TRUE
  /\ ocr_exit = None
  /\ final_target_path = None
  /\ j = 0
  /\ move_errors = {}
  /\ raised = {}
  /\ llm_none = {}

FourNames ==
  JArr(<<JStr(KeyChars("datum")), JStr(KeyChars("absender")), JStr(KeyChars("titel")),
         JStr(KeyChars("kategorie"))>>)

\* "datum absender titel kategorie"
FourNamesText ==
  JStr(KeyChars("datum") \o <<" ">> \o KeyChars("absender") \o <<" ">> \o KeyChars("titel")
         \o <<" ">> \o KeyChars("kategorie"))

\* the members of the Finanzamt object without the member of one key
MembersWithout(key) ==
  SelectSeq(SubSeq(FinanzamtText, 2, Len(FinanzamtText) - 1), LAMBDA m : m.k # key)

PayloadCores ==
  { FinanzamtText, <<TLB, TRB>>, <<>>, <<TTxt>>,
    <<TVal(FourNames)>>, <<TVal(JArr(<<JStr(KeyChars("datum"))>>))>>,
    <<TVal(FourNamesText)>>, <<TVal(JStr(KeyChars("datum")))>>,
    <<TVal(JNum(5))>>, <<TVal(None)>> }
  \cup { <<TLB>> \o MembersWithout(key) \o <<TRB>> :
           key \in {"datum", "absender", "titel", "kategorie"} }

PayloadPrefixes == { <<>>, <<TTxt>>, <<TLB>>, <<TRB>> }

PayloadSuffixes ==
  { <<>>, <<TTxt>>, <<TRB>>, <<TTxt, TLB, TMem("datum", JStr(S_2024_05_15)), TRB>> }

\* What the endpoint may reply to the classifier.
ClassifierReplies ==
  { [kind |-> k] : k \in {"ConnectionError", "Timeout", "HTTPError"} }
  \cup { [kind |-> "body", body |-> [b |-> b]] : b \in {"notjson", "nondict"} }
  \cup { [kind |-> "body", body |-> [b |-> "dict", resp |-> "nonstr"]] }
  \cup { [kind |-> "body", body |-> [b |-> "dict", resp |-> "absent", other |-> other]] :
           other \in { <<>>, MembersWithout(""), MembersWithout("titel") } }
  \cup { ReplyWith(prefix \o core \o suffix) :
           prefix \in PayloadPrefixes, core \in PayloadCores, suffix \in PayloadSuffixes }

InitClassifier ==
  /\ InPipeline
  /\ pc = "llm"
  /\ archive = EmptyDir
  /\ \E reply \in ClassifierReplies : endpoint = {reply}
  /\ text \in {t \in ExtractedTexts : Truthy(t)}
  /\ analysis_result = None
  /\ target_path = None
  /\ trace = <<"ocr", "extract">>

NextClassifier == CallLlm

SpecClassifier == InitClassifier /\ [][NextClassifier]_vars

(***************************************************************************)
(* The validation on its own: main at line 368 with a classification       *)
(* result whose date is any of a set of values.                            *)
(***************************************************************************)
Years == { <<"2", "0", "2", "4">>, <<"2", "0", "2", "3">>, <<"2", "4">> }

Months == { <<"0", "5">>, <<"5">>, <<"0", "2">>, <<"2">>, <<"1", "2">>, <<"1", "3">>, <<"0", "0">> }

Days == { <<"1", "5">>, <<"0", "5">>, <<"5">>, <<" ", "5">>, <<"2", "9">>, <<"3", "0">>,
          <<"3", "1">>, <<"3", "2">>, <<"0", "0">> }

\* The values the "datum" field may have.
DateValues ==
  { JStr(y \o <<sep>> \o m \o <<sep>> \o d) :
      y \in Years, m \in Months, d \in Days, sep \in {"-", "."} }
  \cup { JStr(S_15_05_2024), JStr(S_2024_05_15 \o <<" ">>), JStr(<<" ">> \o S_2024_05_15),
         JStr(<<"n", "u", "l", "l">>), JStr(<<>>), None, JNum(0), JNum(20240515),
         JArr(<<>>), JArr(<<JStr(S_2024_05_15)>>) }

\* A classification result with the given date.
ResultWithDate(datum) ==
  JObj([key \in {"datum", "absender", "titel", "kategorie"} |->
          CASE key = "datum" -> datum
            [] key = "absender" -> JStr(S_Finanzamt)
            [] key = "titel" -> JStr(S_Steuerbescheid)
            [] key = "kategorie" -> JStr(S_Steuer)])

InitValidate ==
  /\ InPipeline
  /\ pc = "validate"
  /\ archive = EmptyDir
  /\ endpoint = PipelineReplies
  /\ text = None
  /\ \E datum \in DateValues : analysis_result = ResultWithDate(datum)
  /\ target_path = None
  /\ trace = <<"ocr", "extract", "llm">>

NextValidate == Validate

SpecValidate == InitValidate /\ [][NextValidate]_vars

(***************************************************************************)
(* The collision resolver on its own: main at line 400 with a desired path *)
(* and an archive that holds any of the files the resolver may probe.      *)
(***************************************************************************)
MaxSiblings == 10

\* x.pdf, "x (1).pdf", x (no suffix), a.b.pdf
ResolverNames ==
  { <<"x">> \o DotPdf, <<"x", " ", "(", "1", ")">> \o DotPdf, <<"x">>,
    <<"a", ".", "b">> \o DotPdf }

\* the numbered siblings of a path, up to MaxSiblings
Siblings(path) ==
  { [dir |-> path.dir,
     name |-> NumberedName(PathStem(path.name), k, PathSuffix(path.name))] :
      k \in 1..MaxSiblings }

\* Archives that hold any of: the path, the same name in another directory,
\* the numbered siblings.
ResolverArchives(path) ==
  { [p \in existing |-> Stale] :
      existing \in SUBSET ({path, [dir |-> Sonstiges, name |-> path.name]}
                             \cup Siblings(path)) }

InitResolver ==
  /\ InPipeline
  /\ pc = "move"
  /\ endpoint = PipelineReplies
  /\ text = None
  /\ analysis_result = ResultWithDate(JStr(S_2024_05_15))
  /\ \E name \in ResolverNames :
       /\ target_path = [dir |-> S_Steuer, name |-> name]
       /\ archive \in ResolverArchives(target_path)
  /\ trace = <<"ocr", "extract", "llm">>

NextResolver == MoveToArchive

SpecResolver == InitResolver /\ [][NextResolver]_vars

(***************************************************************************)
(* The sanitizer on its own: main at line 368 with a classification result *)
(* whose title is any of a set of strings, short ones and ones around the  *)
(* length limit.  Lines 370 and 385 apply sanitize_filename to the         *)
(* stripped title.                                                         *)
(***************************************************************************)
\* How far beyond max_len the run of letters of an input reaches.
MaxOver == 3

\* n times the letter a
Pad(n) == [k \in 1..n |-> "a"]

PadLengths == {0, 5} \cup ((max_len - 4)..(max_len + MaxOver))

InputHeads == { <<>>, <<"b", " ">>, <<"_", ":">>, <<"b", " ", " ", "_">> }

InputTails ==
  { <<>>, <<"_">>, <<"_", " ", "b">>, <<" ", "b">>, <<" ", " ", "b", "b">>, <<"_", "b">>,
    <<"b", "_", " ", "c">>, <<":", "b">>, <<"_", "_", "c">>, <<"?", "*", "x">>,
    <<"<", ">", "\"", "/", "\\", "|", "c">>, <<"\t", "c">> }

\* The strings given to the sanitizer.
SanitizerInputs ==
  { head \o Pad(n) \o tail : head \in InputHeads, n \in PadLengths, tail \in InputTails }

\* A classification result with the given title.
ResultWithTitle(titel) ==
  JObj([key \in {"datum", "absender", "titel", "kategorie"} |->
          CASE key = "datum" -> JStr(S_2024_05_15)
            [] key = "absender" -> JStr(S_Finanzamt)
            [] key = "titel" -> JStr(titel)
            [] key = "kategorie" -> JStr(S_Steuer)])

InitSanitizer ==
  /\ InPipeline
  /\ pc = "validate"
  /\ archive = EmptyDir
  /\ endpoint = PipelineReplies
  /\ text = None
  /\ \E titel \in SanitizerInputs : analysis_result = ResultWithTitle(titel)
  /\ target_path = None
  /\ trace = <<"ocr", "extract", "llm">>

NextSanitizer == Validate

SpecSanitizer == InitSanitizer /\ [][NextSanitizer]_vars

(***************************************************************************)
(* The placement on its own: main from line 368 to line 419 with a         *)
(* classification result whose category is any of a set of strings: the    *)
(* configured categories and others.                                       *)
(***************************************************************************)
\* line 24
DOCUMENT_CATEGORIES ==
  {
    <<"A", "u", "s", "b", "i", "l", "d", "u", "n", "g">>,
    <<"B", "a", "n", "k">>,
    <<"S", "t", "e", "u", "e", "r">>,
    <<"R", "e", "c", "h", "n", "u", "n", "g">>,
    <<"V", "e", "r", "s", "i", "c", "h", "e", "r", "u", "n", "g">>,
    <<"G", "e", "s", "u", "n", "d", "h", "e", "i", "t">>,
    <<"V", "e", "r", "t", "r", "a", "g">>,
    <<"G", "e", "h", "a", "l", "t">>,
    <<"B", "e", "h", "ö", "r", "d", "e">>,
    <<"S", "o", "n", "s", "t", "i", "g", "e", "s">> }

\* Other strings the model may return as the category.
OtherCategories ==
  {
    <<"s", "t", "e", "u", "e", "r">>,
    <<"S", "T", "E", "U", "E", "R", " ", "r", "e", "c", "h", "t">>,
    <<"b", "a", "n", "k", " ">>,
    <<"N", "e", "u", "e", " ", "K", "a", "t", "e", "g", "o", "r", "i", "e">>,
    <<".">>,
    <<".", ".">>,
    <<".", ".", ".">>,
    <<" ", ".", " ">>,
    <<"_", ".", ".", "_">>,
    <<".", ".", "/", "x">>,
    <<"a", "/", "b">>,
    <<"/", "e", "t", "c">>,
    <<".", ".", "\\", "x">>,
    <<":", ".">>,
    <<"x", ".">>,
    <<".", "x">>,
    <<>>,
    <<" ">>,
    <<"_">>,
    <<"?">>,
    <<"a", " ", " ", "b">>,
    <<"ü">>,
    <<"U", "n", "b", "e", "k", "a", "n", "n", "t">>,
    <<"n", "u", "l", "l">>,
    <<"s", "o", "n", "s", "t", "i", "g", "e", "s">>,
    <<"r", "e", "c", "h", "n", "u", "n", "g">>,
    <<"x", "_", "y">>,
    <<"a", ":", "b">>,
    <<"b", "a", "n", "k", "/", "s", "t", "e", "u", "e", "r">>,
    <<".", ".", ".", ".">>,
    <<"-", " ">>,
    <<"1">>,
    <<"2", "0", "2", "4">> }

\* A classification result with the given category.
ResultWithCategory(kategorie) ==
  JObj([key \in {"datum", "absender", "titel", "kategorie"} |->
          CASE key = "datum" -> JStr(S_2024_05_15)
            [] key = "absender" -> JStr(S_Finanzamt)
            [] key = "titel" -> JStr(S_Steuerbescheid)
            [] key = "kategorie" -> JStr(kategorie)])

\* Where PROCESSED_DIR / kategorie_sanitized lies (lines 395-396): "." names
\* the archive root itself, ".." its parent, a name with a path separator a
\* directory further down, any other name a directory directly under the root.
DirPlace(dir) ==
  IF dir = <<".">> THEN "root"
  ELSE IF dir = <<".", ".">> THEN "outside"
  ELSE IF \E k \in 1..Len(dir) : dir[k] \in {"/", "\\"} THEN "nested"
  ELSE "category"

InitCategory ==
  /\ InPipeline
  /\ pc = "validate"
  /\ archive = EmptyDir
  /\ endpoint = PipelineReplies
  /\ text = None
  /\ \E kategorie \in DOCUMENT_CATEGORIES \cup OtherCategories :
       analysis_result = ResultWithCategory(kategorie)
  /\ target_path = None
  /\ trace = <<"ocr", "extract", "llm">>

NextCategory ==
  \/ Validate
  \/ MakeCategoryDir
  \/ MoveToArchive
  \/ UnlinkOriginal

SpecCategory == InitCategory /\ [][NextCategory]_vars

(***************************************************************************)
(* The file names on their own: a run of main on an Inbox that holds one   *)
(* or two PDF files out of names with one dot, with two dots and with a    *)
(* leading dot only, next to files that bear the names of temp files.      *)
(***************************************************************************)
\* a.pdf, a.b.pdf, .pdf
InputNames == {FileName(1), <<"a", ".", "b">> \o DotPdf, DotPdf}

\* names a temp file of a.pdf or of .pdf may bear
TempNames ==
  {TempOcrPath(FileName(1)), RepairedTempPath(FileName(1)), RepairedTempPath(DotPdf)}

InitNames ==
  /\ pc = "start"
  /\ \E names \in SUBSET InputNames, temps \in {{}, TempNames} :
       /\ names # {}
       /\ Cardinality(names) <= MaxFiles
       /\ inbox = [name \in names \cup temps |->
                     IF name \in names THEN Original(name) ELSE Stale]
  /\ archive = EmptyDir
  /\ failed_dir = EmptyDir
  /\ endpoint = PipelineReplies
  /\ pdf_files = <<>>
  /\ i = 0
  /\ processed_count = 0
  /\ failed_files = <<>>
  /\ success_log = <<>>
  /\ is_retry = FALSE
  /\ ocr_ok = FALSE
  /\ ocr_exit = None
  /\ text = None
  /\ analysis_result = None
  /\ target_path = None
  /\ final_target_path = None
  /\ j = 0
  /\ move_errors = {}
  /\ trace = <<>>
  /\ raised = {}
  /\ llm_none = {}

SpecNames == InitNames /\ [][Next]_vars

(***************************************************************************)
(* The claims of the specification.                                        *)
(***************************************************************************)
\* the files recorded as successes
Succeeded == {success_log[k].original : k \in 1..Len(success_log)}

\* the files recorded as failed
Failed == Range(failed_files)

Enumerated == Range(pdf_files)

\* how often main called an external operation for the current file
Count(op) == Cardinality({k \in 1..Len(trace) : trace[k] = op})

\* the OCR output of a file: of the original, or of its repaired copy
OcrdFileOf(name) == [kind |-> "ocr", of |-> name]

\* C1: for every combination of stage outcomes (cleanup steps included) the
\* batch loop visits every enumerated file, the run reaches the final summary,
\* and there each file is recorded as a success or as failed: an exception
\* never leaves main while files are unvisited.
C1_BatchIsolation ==
  /\ pc # "crashed"
  /\ pc = "done" => Enumerated = Succeeded \cup Failed

\* C2: while the files are processed, the original of a file is absent from
\* the Inbox only if the OCR'd file has been moved to its final archive path:
\* the move of that file has returned, the OCR'd file lies at the path and the
\* OCR temp file is gone.
C2_OriginalDeletedOnlyAfterMove ==
  pc \notin {"start", "returned", "relocate", "done"} =>
    \A k \in 1..Len(pdf_files) :
      pdf_files[k] \notin DOMAIN inbox =>
        /\ TempOcrPath(pdf_files[k]) \notin DOMAIN inbox
        /\ IF k = i /\ pc \in {"unlink_original", "except", "end_file", "crashed"}
           THEN /\ Count("move") = 1
                /\ k \notin raised
                /\ final_target_path \in DOMAIN archive
                /\ archive[final_target_path] = OcrdFileOf(pdf_files[k])
           ELSE /\ k < i
                /\ \E n \in 1..Len(success_log) :
                     /\ success_log[n].original = pdf_files[k]
                     /\ success_log[n].ziel \in DOMAIN archive
                     /\ archive[success_log[n].ziel] = OcrdFileOf(pdf_files[k])

\* C2 happens: the second file's original has been deleted after its move,
\* while the first file, whose move failed, still has its original.
C2_Witness ==
  /\ pc = "end_file"
  /\ i = 2
  /\ 1 \in raised
  /\ pdf_files[1] \in DOMAIN inbox
  /\ pdf_files[2] \notin DOMAIN inbox
  /\ archive[final_target_path] = OcrdFileOf(pdf_files[2])

RasterizerFailure == [kind |-> "CalledProcessError", returncode |-> 7, ghostscript |-> TRUE]

\* C3: for one file the repair tool runs at most once and the OCR tool at most
\* twice, and a rasterizer failure (exit code 7, the rasterizer named in
\* stderr) of the second attempt makes run_ocrmypdf return False without
\* another repair or OCR run.
C3_RepairAtMostOnce ==
  /\ Count("repair") <= 1
  /\ Count("ocr") <= 2
  /\ (Count("ocr") = 2 /\ ocr_exit = RasterizerFailure) =>
       /\ pc \in {"retry_cleanup", "ocr_returned"}
       /\ ocr_ok = FALSE

\* C3 happens: the second attempt has ended in a rasterizer failure and
\* run_ocrmypdf has returned False after one repair and two OCR runs.
C3_Witness ==
  /\ pc = "ocr_returned"
  /\ Count("repair") = 1
  /\ Count("ocr") = 2
  /\ ocr_exit = RasterizerFailure
  /\ ocr_ok = FALSE

\* C4 as stated: when the run ends no enumerated file remains in the Inbox;
\* every success has had its original deleted and every failed file lies in
\* the Failed directory under its name.
C4_NoFileRemains ==
  pc = "done" =>
    /\ \A name \in Enumerated : name \notin DOMAIN inbox
    /\ \A name \in Failed :
         name \in DOMAIN failed_dir /\ failed_dir[name] = Original(name)

\* C4, amended: when the run ends every success has had its original deleted;
\* every failed file whose relocation logged no error lies in the Failed
\* directory under its name, in place of any file of that name, and is gone
\* from the Inbox; a failed file whose relocation logged an error (lines
\* 453-455) remains in the Inbox.
C4_NoFileRemainsUnlessRelocationFails ==
  pc = "done" =>
    /\ Enumerated = Succeeded \cup Failed
    /\ move_errors \subseteq Failed
    /\ \A name \in Succeeded : name \notin DOMAIN inbox
    /\ \A name \in Failed \ move_errors :
         /\ name \notin DOMAIN inbox
         /\ name \in DOMAIN failed_dir
         /\ failed_dir[name] = Original(name)
    /\ \A name \in move_errors :
         name \in DOMAIN inbox /\ inbox[name] = Original(name)

\* C4 happens: the run has ended, one failed file has replaced a file of its
\* name in the Failed directory and the relocation of another has failed.
C4_Witness ==
  /\ pc = "done"
  /\ Len(failed_files) = 2
  /\ move_errors = {failed_files[2]}
  /\ failed_files[1] \in DOMAIN failed_dir
  /\ failed_dir[failed_files[1]] = Original(failed_files[1])

\* C5: after k files have been processed, processed_count plus the number of
\* failed names is k; no name is both a success and failed; the failed list
\* holds exactly the files whose pipeline raised, each once; so at the summary
\* total_files = processed_count + len(failed_files).
C5_Counts ==
  /\ processed_count = Len(success_log)
  /\ Cardinality(Succeeded) = Len(success_log)
  /\ Cardinality(Failed) = Len(failed_files)
  /\ Succeeded \cap Failed = {}
  /\ pc = "begin_file" => processed_count + Len(failed_files) = i - 1
  /\ pc = "end_file" => processed_count + Len(failed_files) = i
  /\ pc \in {"relocate", "done"} => processed_count + Len(failed_files) = Len(pdf_files)
  /\ pc # "except" => Failed = {pdf_files[k] : k \in raised}

\* C5 happens: the summary of a batch of two files, one a success and one
\* failed at the classification.
C5_Witness ==
  /\ pc = "done"
  /\ Len(pdf_files) = 2
  /\ processed_count = 1
  /\ Len(failed_files) = 1
  /\ llm_none # {}

\* C6: when the classifier returns None for a file, nothing is placed in the
\* archive for it, its OCR temp file is deleted, the original stays in the
\* Inbox unmodified until the relocation, the file is recorded as failed, the
\* batch continues, and at the end of the run the file lies unchanged in the
\* Failed directory.
C6_ClassifierFailure ==
  \A k \in llm_none :
    LET name == pdf_files[k]
        handled == k < i \/ pc \in {"end_file", "relocate", "done"}
    IN  /\ \A p \in DOMAIN archive : archive[p].of # name
        /\ pc # "crashed"
        /\ handled => name \in Failed /\ TempOcrPath(name) \notin DOMAIN inbox
        /\ pc \notin {"relocate", "done"} =>
             name \in DOMAIN inbox /\ inbox[name] = Original(name)
        /\ pc = "done" =>
             /\ name \notin DOMAIN inbox
             /\ name \in DOMAIN failed_dir
             /\ failed_dir[name] = Original(name)

\* the classification of the example
FinanzamtResult == ResultWithDate(JStr(S_2024_05_15))

\* "2024-05-15 - Finanzamt München - Steuerbescheid 2023.pdf"
FinanzamtName ==
  <<"2", "0", "2", "4", "-", "0", "5", "-", "1", "5", " ", "-", " ", "F",
    "i", "n", "a", "n", "z", "a", "m", "t", " ", "M", "ü", "n", "c",
    "h", "e", "n", " ", "-", " ", "S", "t", "e", "u", "e", "r", "b",
    "e", "s", "c", "h", "e", "i", "d", " ", "2", "0", "2", "3", ".",
    "p", "d", "f">>

\* "2024-05-15 - Finanzamt_München - Steuerbescheid_2023.pdf"
FinanzamtNameUnderscored ==
  <<"2", "0", "2", "4", "-", "0", "5", "-", "1", "5", " ", "-", " ", "F",
    "i", "n", "a", "n", "z", "a", "m", "t", "_", "M", "ü", "n", "c",
    "h", "e", "n", " ", "-", " ", "S", "t", "e", "u", "e", "r", "b",
    "e", "s", "c", "h", "e", "i", "d", "_", "2", "0", "2", "3", ".",
    "p", "d", "f">>

\* "NODATE - Bank_ A_B - Unbenannter_Titel.pdf"
BankName ==
  <<"N", "O", "D", "A", "T", "E", " ", "-", " ", "B", "a", "n", "k", "_",
    " ", "A", "_", "B", " ", "-", " ", "U", "n", "b", "e", "n", "a",
    "n", "n", "t", "e", "r", "_", "T", "i", "t", "e", "l", ".", "p",
    "d", "f">>

\* the file of the current iteration has been archived at path
ArchivedAt(path) ==
  /\ final_target_path = path
  /\ path \in DOMAIN archive
  /\ archive[path] = OcrdFileOf(pdf_path)
  /\ pdf_path \notin DOMAIN inbox
  /\ TempOcrPath(pdf_path) \notin DOMAIN inbox

\* the current file has been processed with success
FileSucceeded == pc = "end_file" /\ i \notin raised

\* C7 as stated: a file classified as 2024-05-15, Finanzamt München,
\* Steuerbescheid 2023, Steuer, with no file at the destination, ends at
\* Steuer/2024-05-15 - Finanzamt_München - Steuerbescheid_2023.pdf and its
\* original is deleted.
C7_ExamplePathUnderscored ==
  (FileSucceeded /\ analysis_result = FinanzamtResult /\ final_target_path = target_path) =>
    ArchivedAt([dir |-> S_Steuer, name |-> FinanzamtNameUnderscored])

\* C7, amended: the sanitizer keeps the spaces of sender and title, so the
\* file ends at Steuer/2024-05-15 - Finanzamt München - Steuerbescheid 2023.pdf
\* and its original is deleted; in general the name is
\* "{date or NODATE} - {sender} - {title}.pdf" of the sanitized sender and
\* title, an empty one replaced by its fallback label: the classification
\* 15.05.2024, "Bank: A/B", " ", "steuer " ends at
\* Steuer/NODATE - Bank_ A_B - Unbenannter_Titel.pdf.
C7_ExamplePath ==
  (FileSucceeded /\ final_target_path = target_path) =>
    /\ analysis_result = FinanzamtResult =>
         ArchivedAt([dir |-> S_Steuer, name |-> FinanzamtName])
    /\ (/\ analysis_result.d["datum"] = JStr(S_15_05_2024)
        /\ analysis_result.d["absender"] = JStr(S_BankAB)) =>
         ArchivedAt([dir |-> S_Steuer, name |-> BankName])

\* C7 happens: the file of the example has been archived where no file was.
C7_Witness ==
  /\ FileSucceeded
  /\ analysis_result = FinanzamtResult
  /\ final_target_path = target_path
  /\ final_target_path.name = FinanzamtName

\* the one reply of the endpoint (SpecClassifier)
TheReply == CHOOSE reply \in endpoint : TRUE

\* a parse that yielded an object with the four keys
HasAllKeys(parse) ==
  /\ parse.ok
  /\ parse.v.t = "obj"
  /\ {"datum", "absender", "titel", "kategorie"} \subseteq DOMAIN parse.v.d

\* The object C8 lets the classifier return for a payload: that of the direct
\* parse, or, only if the direct parse fails, that of the parse of the text
\* from the first "{" to the last "}"; None if there is none.
ObjectOfPayload(payload) ==
  LET direct == json_loads(payload)
      match == re_search_braces(payload)
  IN  IF direct.ok THEN (IF HasAllKeys(direct) THEN direct.v ELSE None)
      ELSE IF match.found /\ HasAllKeys(json_loads(match.group0))
      THEN json_loads(match.group0).v
      ELSE None

ExpectedResult(reply) ==
  IF reply.kind = "body" /\ reply.body.b = "dict" /\ reply.body.resp = "str"
  THEN ObjectOfPayload(reply.body.payload)
  ELSE None

\* C8: the classifier returns a result only when the direct parse of the
\* response payload, or (only if that fails) the parse of its first greedy
\* brace-delimited substring, yields an object with the four keys datum,
\* absender, titel, kategorie, and then returns that object; in every other
\* case it returns None.
C8_ClassifierResult ==
  (pc \in {"validate", "except"} /\ analysis_result # None) =>
    /\ ExpectedResult(TheReply) # None
    /\ analysis_result = ExpectedResult(TheReply)

\* a valid date written YYYY-MM-DD
IsIsoDate(s) ==
  /\ Len(s) = 10
  /\ \A k \in {1, 2, 3, 4, 6, 7, 9, 10} : IsDigit(s[k])
  /\ s[5] = "-" /\ s[8] = "-"
  /\ LET year == IntOf(SubSeq(s, 1, 4))
         month == IntOf(SubSeq(s, 6, 7))
         day == IntOf(SubSeq(s, 9, 10))
     IN  /\ year >= 1
         /\ month \in 1..12
         /\ day \in 1..DaysInMonth(year, month)

\* the date component of a file name of the sender and title of the example
DateComponent(name) == SubSeq(name, 1, Len(name) - (Len(FinanzamtName) - 10))

\* C9: the date component of the file name is the classifier's date string
\* unchanged when that is a valid YYYY-MM-DD date, and NODATE for every other
\* value; no value of the date makes the file fail.
C9_DateOrSentinel ==
  /\ pc # "except"
  /\ pc = "mkdir" =>
       LET datum == analysis_result.d["datum"]
       IN  DateComponent(target_path.name) =
             IF datum.t = "str" /\ IsIsoDate(datum.s) THEN datum.s ELSE NODATE

\* C10: the resolver returns the desired path if no file exists there, and
\* otherwise "{stem} ({k}){ext}" in the same directory for the smallest k >= 1
\* at which no file exists; the path it returns names no existing file; and
\* no existing file is created, deleted or modified: after the move that
\* follows, the archive differs at the returned path only.
C10_CollisionResolver ==
  [][pc = "move" =>
       LET existing == DOMAIN archive
           ret == final_target_path'
           numbered(k) ==
             [dir |-> target_path.dir,
              name |-> PathStem(target_path.name) \o <<" ", "(">> \o Digits(k) \o <<")">>
                         \o PathSuffix(target_path.name)]
       IN  /\ target_path \notin existing => ret = target_path
           /\ target_path \in existing =>
                \E k \in 1..(Cardinality(existing) + 1) :
                  /\ ret = numbered(k)
                  /\ \A m \in 1..(k - 1) : numbered(m) \in existing
           /\ ret \notin existing
           /\ DOMAIN archive' \subseteq existing \cup {ret}
           /\ \A p \in existing : p \in DOMAIN archive' /\ archive'[p] = archive[p]
    ]_vars

\* C10 happens: x.pdf and its siblings 1 to 9 exist, and the file has been
\* moved to "x (10).pdf".
C10_Witness ==
  /\ pc = "unlink_original"
  /\ target_path.name = <<"x", ".", "p", "d", "f">>
  /\ final_target_path.name = <<"x", " ", "(", "1", "0", ")", ".", "p", "d", "f">>
  /\ archive[final_target_path] = OcrdFileOf(pdf_path)

\* the title component of a file name whose date and sender are those of the
\* example
TitleComponent(name) ==
  SubSeq(name, Len(S_2024_05_15) + 3 + Len(S_Finanzamt) + 3 + 1, Len(name) - Len(DotPdf))

\* what sanitize_filename returned for the title of the current file
SanitizedTitle ==
  IF TitleComponent(target_path.name) = Unbenannter_Titel
       /\ sanitize_filename(Strip(analysis_result.d["titel"].s)) = <<>>
  THEN <<>>
  ELSE TitleComponent(target_path.name)

\* C11: the sanitizer is idempotent: sanitizing what it returned, for any
\* input (inputs beyond the 200-character limit included), returns the same
\* string.
C11_SanitizerIdempotent ==
  pc = "mkdir" => sanitize_filename(SanitizedTitle) = SanitizedTitle

\* C12: for every input the sanitizer's output holds none of the characters
\* < > : " / \ | ? *, is at most 200 characters long and holds no two
\* consecutive underscores.
C12_SanitizerOutput ==
  pc = "mkdir" =>
    LET out == SanitizedTitle
    IN  /\ \A k \in 1..Len(out) : out[k] \notin {"<", ">", ":", "\"", "/", "\\", "|", "?", "*"}
        /\ Len(out) <= 200
        /\ \A k \in 1..(Len(out) - 1) : ~(out[k] = "_" /\ out[k + 1] = "_")

\* C12 happens: a title of more than 200 characters that holds invalid
\* characters and underscores in a row has been sanitized to 200 characters.
C12_Witness ==
  /\ pc = "mkdir"
  /\ Len(analysis_result.d["titel"].s) > 200
  /\ \E k \in 1..Len(analysis_result.d["titel"].s) : analysis_result.d["titel"].s[k] = ":"
  /\ Len(SanitizedTitle) = 200

\* C13: for every category string the model may return, the file of a
\* successful run is placed at {category}/{filename}.pdf under the archive
\* root: in a category directory that lies directly under the root, never in
\* the root itself or outside it.
C13_PlacedInCategoryDir ==
  (pc \in {"unlink_original", "end_file"} /\ i \notin raised) =>
    /\ final_target_path \in DOMAIN archive
    /\ archive[final_target_path] = OcrdFileOf(pdf_path)
    /\ final_target_path.dir # <<>>
    /\ DirPlace(final_target_path.dir) = "category"
    /\ EndsWith(final_target_path.name, DotPdf)

\* C14: run_ocrmypdf enters the repair path if and only if the OCR tool
\* exits with code 7, its stderr names the rasterizer and the call is the
\* first attempt; a missing binary, any other failure of the first attempt
\* and any failure of the retry make it return False without a run of the
\* repair tool after it and without another OCR run.
C14_RepairPathGuard ==
  /\ pc \in {"repair_unlink", "repair", "repair_failed"} =>
       /\ ocr_exit = RasterizerFailure
       /\ ~is_retry
       /\ Count("ocr") = 1
  /\ (pc = "ocr_returned" /\ Count("repair") = 0) =>
       /\ Count("ocr") = 1
       /\ ocr_exit # RasterizerFailure
       /\ ocr_ok = (ocr_exit.kind = "ok")
  /\ pc = "retry_cleanup" =>
       /\ Count("ocr") = 2
       /\ Count("repair") = 1
       /\ ocr_ok = (ocr_exit.kind = "ok")

\* C14 happens: the first attempt ended with the missing binary and
\* run_ocrmypdf returned False without a repair.
C14_Witness ==
  /\ pc = "ocr_returned"
  /\ ocr_exit.kind = "FileNotFoundError"
  /\ trace = <<"ocr">>
  /\ ocr_ok = FALSE

\* C15: after the rasterizer failure a second OCR attempt is made if and only
\* if the repair succeeded; it reads the repaired temp file, writes to the
\* same output path, runs with the retry flag set, and what run_ocrmypdf
\* returns is the result of that attempt; if the repair fails run_ocrmypdf
\* returns False without a second OCR attempt.
C15_RetryAfterRepair ==
  /\ (pc = "ocr" /\ Count("repair") = 1) =>
       /\ trace = <<"ocr", "repair">>
       /\ is_retry
       /\ input_path = RepairedTempPath(pdf_path)
       /\ input_path \in DOMAIN inbox
       /\ inbox[input_path] = [kind |-> "repaired", of |-> pdf_path]
  /\ Count("ocr") = 2 => SubSeq(trace, 1, 3) = <<"ocr", "repair", "ocr">>
  /\ (pc = "retry_cleanup" /\ ocr_exit.kind = "ok" /\ temp_ocr_pdf_path \in DOMAIN inbox) =>
       inbox[temp_ocr_pdf_path] = OcrdFileOf(pdf_path)
  /\ (pc = "ocr_returned" /\ Count("ocr") = 2) => ocr_ok = (ocr_exit.kind = "ok")
  /\ pc = "repair_failed" => trace = <<"ocr", "repair">>
  /\ (pc = "ocr_returned" /\ trace = <<"ocr", "repair">>) => ocr_ok = FALSE

\* C15 happens: the repair succeeded, the second attempt succeeded and
\* run_ocrmypdf returned True.
C15_Witness ==
  /\ pc = "ocr_returned"
  /\ trace = <<"ocr", "repair", "ocr">>
  /\ ocr_exit.kind = "ok"
  /\ ocr_ok = TRUE
  /\ temp_ocr_pdf_path \in DOMAIN inbox

\* C16 as stated: whenever run_ocrmypdf returns to main, on every path, no
\* repaired temp file of the file exists; and none exists when the repair
\* tool starts.
C16_NoRepairedTempFile ==
  pc \in {"ocr_returned", "repair"} => RepairedTempPath(pdf_path) \notin DOMAIN inbox

\* C16, amended: whenever run_ocrmypdf returns to main after it entered the
\* repair path (repair failure, retry success, retry failure), no repaired
\* temp file of the file exists, and none exists when the repair tool starts;
\* on a path without repair run_ocrmypdf does not touch that path, so a
\* repaired temp file of an earlier run is still there.
C16_NoRepairedTempFileAfterRepair ==
  /\ pc = "repair" => RepairedTempPath(pdf_path) \notin DOMAIN inbox
  /\ (pc = "ocr_returned" /\ Count("repair") = 1) =>
       RepairedTempPath(pdf_path) \notin DOMAIN inbox
  /\ (pc = "ocr_returned" /\ Count("repair") = 0) =>
       (RepairedTempPath(pdf_path) \in DOMAIN inbox =>
          inbox[RepairedTempPath(pdf_path)] = Stale)

\* C16 happens: the repair succeeded, the retry failed, and run_ocrmypdf has
\* returned with the repaired temp file gone while the partial output of the
\* OCR tool is still there.
C16_Witness ==
  /\ pc = "ocr_returned"
  /\ trace = <<"ocr", "repair", "ocr">>
  /\ ocr_exit.kind = "CalledProcessError"
  /\ TempOcrPath(pdf_path) \in DOMAIN inbox
  /\ RepairedTempPath(pdf_path) \notin DOMAIN inbox

\* the positions of main between the deletion of the stale OCR temp file and
\* the end of the processing of the file
AfterBeginFile ==
  {"ocr", "repair_unlink", "repair", "repair_failed", "retry_cleanup", "ocr_returned",
   "extract", "llm", "validate", "mkdir", "move", "unlink_original", "except"}

\* C17: once a file has been recorded as a success or as failed, no OCR temp
\* file of that file is left in the Inbox, and from the start of the OCR of a
\* file on no OCR temp file of an earlier run lies at its temp path.
C17_NoOcrTempFile ==
  /\ \A k \in 1..Len(pdf_files) :
       pdf_files[k] \in Succeeded \cup Failed =>
         TempOcrPath(pdf_files[k]) \notin DOMAIN inbox
  /\ (pc \in AfterBeginFile /\ temp_ocr_pdf_path \in DOMAIN inbox) =>
       inbox[temp_ocr_pdf_path] # Stale

\* the last external call made for the current file
LastCall(tr) == IF tr = <<>> THEN "none" ELSE tr[Len(tr)]

\* C18: every external call of a stage follows the calls of the stage before
\* it, in the order OCR (with its repair and retry), extraction,
\* classification, validation, placement, and is made only while no earlier
\* stage of the file has raised and the stage before it has succeeded; main
\* turns to the next file only when the current one is recorded as a success
\* or as failed, and until then no later file has been touched.
C18_StageOrder ==
  [][/\ (trace' # trace /\ trace' # <<>>) =>
          LET op == LastCall(trace')
          IN  /\ trace' = Append(trace, op)
              /\ i' = i
              /\ i \notin raised
              /\ op = "ocr" => trace \in {<<>>, <<"ocr", "repair">>}
              /\ op = "repair" => trace = <<"ocr">>
              /\ op = "extract" => /\ LastCall(trace) = "ocr"
                                   /\ ocr_ok
                                   /\ temp_ocr_pdf_path \in DOMAIN inbox
              /\ op = "llm" => /\ LastCall(trace) = "extract"
                               /\ Truthy(text)
              /\ op = "move" => /\ LastCall(trace) = "llm"
                                /\ Truthy(analysis_result)
                                /\ target_path # None
              /\ op = "unlink_original" => /\ LastCall(trace) = "move"
                                           /\ final_target_path \in DOMAIN archive
     /\ pc' = "validate" => /\ LastCall(trace') = "llm"
                            /\ Truthy(analysis_result')
                            /\ i \notin raised'
     /\ (i' # i /\ i >= 1) => /\ pdf_files[i] \in Succeeded \cup Failed
                              /\ i' = i + 1
                              /\ trace' = <<>>
     /\ \A k \in 1..Len(pdf_files) :
          k > i' => /\ pdf_files[k] \notin Succeeded' \cup Failed'
                    /\ pdf_files[k] \in DOMAIN inbox'
                    /\ inbox'[pdf_files[k]] = inbox[pdf_files[k]]
    ]_vars

\* C18 happens: the first file has been recorded as failed, and the second
\* file has gone through every stage, repair and retry included, and is
\* recorded as a success.
C18_Witness ==
  /\ pc = "end_file"
  /\ i = 2
  /\ pdf_files[1] \in Failed
  /\ pdf_files[2] \in Succeeded
  /\ trace = <<"ocr", "repair", "ocr", "extract", "llm", "move", "unlink_original">>

\* C19: when extract_text_from_pdf returns None or "" the file is recorded as
\* failed without a call of the classifier; when it returns a non-empty text
\* of fewer than 50 characters after trimming, main goes on to the classifier
\* call, which is made with that text.
C19_ExtractionOutcome ==
  [][/\ (pc = "extract" /\ pc' # "extract") =>
          /\ trace' = Append(trace, "extract")
          /\ text' \in {None, JStr(<<>>)} => /\ pc' = "except"
                                            /\ i \in raised'
          /\ (text'.t = "str" /\ text'.s # <<>> /\ Len(Strip(text'.s)) < 50) =>
               /\ pc' = "llm"
               /\ i \notin raised'
     /\ (pc = "except" /\ LastCall(trace) = "extract") =>
          /\ text \in {None, JStr(<<>>)}
          /\ trace' = trace
          /\ pdf_path \in Failed'
     /\ (pc = "end_file" /\ LastCall(trace) = "extract") => pdf_path \in Failed
     /\ (pc = "llm" /\ pc' # "llm") => /\ Truthy(text)
                                       /\ trace' = Append(trace, "llm")
    ]_vars

\* C19 happens: the extraction of the second file has returned a text that is
\* empty after trimming, and main is about to call the classifier with it.
C19_Witness ==
  /\ pc = "llm"
  /\ i = 2
  /\ text = JStr(<<" ", "\n">>)
  /\ LastCall(trace) = "extract"
  /\ 2 \notin raised

\* C20: main visits the files one after the other, each once, and calls the
\* classifier at most once for a file; a call that returns None (a transport
\* error, or a response from which no result can be parsed) is followed by
\* the except block and by no other call for that file, and the file is
\* recorded as failed and never as a success.
C20_ClassifierCalledOnce ==
  [][/\ Cardinality({k \in 1..Len(trace') : trace'[k] = "llm"}) <= 1
     /\ i' # i => i' = i + 1
     /\ (pc = "llm" /\ pc' # "llm" /\ analysis_result' = None) =>
          /\ pc' = "except"
          /\ i \in raised'
          /\ i \in llm_none'
     /\ (pc = "except" /\ i \in llm_none) =>
          /\ trace' = trace
          /\ archive' = archive
          /\ pdf_path \in Failed'
     /\ \A k \in llm_none' :
          /\ pdf_files[k] \notin Succeeded'
          /\ (k < i' \/ pc' \in {"end_file", "relocate", "done", "crashed"}) =>
               pdf_files[k] \in Failed'
    ]_vars

\* C20 happens: the one classifier call of the first file has returned None,
\* as it does after a transport error, and the file is recorded as failed after that single call.
C20_Witness ==
  /\ pc = "end_file"
  /\ i = 1
  /\ [kind |-> "ConnectionError"] \in endpoint
  /\ analysis_result = None
  /\ trace = <<"ocr", "extract", "llm">>
  /\ llm_none = {1}
  /\ failed_files = <<pdf_files[1]>>

\* the archive paths that hold a file made from the enumerated file name
ArchivedFor(name) == {p \in DOMAIN archive : archive[p].of = name}

\* C21: at the end of the run nothing lies in the archive for a file of the
\* failed list; for a file of the success list exactly one archive file has
\* been made and its original is gone from the Inbox; and every enumerated
\* file lies either in the archive or in the Failed directory, never in both.
C21_ArchiveOrFailed ==
  pc = "done" =>
    /\ \A name \in Failed : ArchivedFor(name) = {}
    /\ \A name \in Succeeded :
         /\ Cardinality(ArchivedFor(name)) = 1
         /\ name \notin DOMAIN inbox
    /\ \A name \in Enumerated :
         LET in_failed == name \in DOMAIN failed_dir /\ failed_dir[name] = Original(name)
         IN  (ArchivedFor(name) # {}) # in_failed

\* the archive paths of the recorded successes
SuccessPaths == {success_log[n].ziel : n \in 1..Len(success_log)}

\* C22: no step of the run changes or removes a file that lies in the
\* archive; a placement that succeeds adds exactly one file, at a path where
\* there was none, and the deletion of the original that follows adds none;
\* the recorded successes lie at pairwise distinct paths; and a file whose
\* desired path was taken by an earlier success of the batch is recorded at a
\* numbered sibling of that path.
C22_PlacementAddsOneFile ==
  [][/\ \A p \in DOMAIN archive : p \in DOMAIN archive' /\ archive'[p] = archive[p]
     /\ (pc = "move" /\ pc' = "unlink_original") =>
          /\ final_target_path' \notin DOMAIN archive
          /\ DOMAIN archive' = DOMAIN archive \cup {final_target_path'}
          /\ Cardinality(DOMAIN archive') = Cardinality(DOMAIN archive) + 1
          /\ archive'[final_target_path'] = OcrdFileOf(pdf_path)
     /\ pc = "unlink_original" => archive' = archive
     /\ (pc = "unlink_original" /\ pc' = "end_file") =>
          /\ Len(success_log') = Len(success_log) + 1
          /\ final_target_path \notin SuccessPaths
          /\ Cardinality(SuccessPaths') = Len(success_log')
          /\ SuccessPaths' \subseteq DOMAIN archive'
          /\ target_path \in SuccessPaths =>
               \E k \in 1..(Len(success_log) + 1) :
                 final_target_path =
                   [dir |-> target_path.dir,
                    name |-> NumberedName(PathStem(target_path.name), k,
                                          PathSuffix(target_path.name))]
    ]_vars

\* C22 happens: both files of the batch were classified alike while a file
\* lay at the desired path already; the first is recorded at sibling 1, the
\* second at sibling 2, and the file that lay there is unchanged.
C22_Witness ==
  /\ pc = "end_file"
  /\ Len(success_log) = 2
  /\ FinanzamtTarget \in DOMAIN archive
  /\ archive[FinanzamtTarget] = Stale
  /\ success_log[1].ziel =
       [dir |-> FinanzamtTarget.dir,
        name |-> NumberedName(PathStem(FinanzamtTarget.name), 1, DotPdf)]
  /\ success_log[2].ziel =
       [dir |-> FinanzamtTarget.dir,
        name |-> NumberedName(PathStem(FinanzamtTarget.name), 2, DotPdf)]
  /\ Cardinality(DOMAIN archive) = 3

\* the file a step of the run works on: the file being processed, or the
\* failed file being relocated
CurrentFile ==
  IF pc = "relocate"
  THEN IF j \in 1..Len(failed_files) THEN {failed_files[j]} ELSE {}
  ELSE IF i \in 1..Len(pdf_files) THEN {pdf_path} ELSE {}

\* C23: the OCR temp path and the repaired temp path of every enumerated file
\* end in "_ocr_temp.pdf" and in "_repaired_temp.pdf", neither is the name of
\* an enumerated file, and no step of the run deletes, moves or overwrites
\* an enumerated file other than the one it works on.
C23_TempPathsReserved ==
  [][/\ \A name \in Enumerated :
          /\ EndsWith(TempOcrPath(name), OcrTempSuffix)
          /\ EndsWith(RepairedTempPath(name), RepairedTempSuffix)
          /\ TempOcrPath(name) \notin Enumerated
          /\ RepairedTempPath(name) \notin Enumerated
     /\ \A name \in (Enumerated \cap DOMAIN inbox) \ CurrentFile :
          /\ name \in DOMAIN inbox'
          /\ inbox'[name] = inbox[name]
    ]_vars
=============================================================================
